---- MODULE Spec2Model ----
(***************************************************************************)
(* StripZIP (src/src/stripzip_app.c): in-place removal of timestamps and   *)
(* UID/GID extra data from a ZIP archive.  The archive is a sequence of    *)
(* bytes; headers are the packed little-endian structs of the source,      *)
(* decoded from and encoded to bytes.  main() is cut into steps at its     *)
(* blocks; every step is one action.                                       *)
(*                                                                         *)
(* Build assumed: gcc / glibc on a little-endian 64-bit host (Makefile).   *)
(* There a read that directly follows a write on the "r+" stream works     *)
(* without an intervening fseek, and (long)(-1 * len) is -len.             *)
(***************************************************************************)
EXTENDS Integers, Sequences, FiniteSets, TLC

VARIABLES
  arch,                 \* ghost: the descriptor of the archive given to the program
  file,                 \* the archive's bytes on disk
  pos,                  \* stream position of zf
  pc,                   \* position of main()
  status,               \* exit status of the last finished run (-1 while running)
  zf,                   \* "null", "open" or "closed"
  closes,               \* number of fclose(zf) calls of this run
  eocd_header,          \* bytes of main's eocd_header
  cd_header,            \* bytes of main's cd_header
  lf_header,            \* bytes of main's lf_header
  local_extra,          \* main's local_extra buffer
  dir_entry,            \* loop counter of main
  current_cd_position,  \* main's current_cd_position
  written,              \* history: offsets fwrite has transferred bytes to, this run
  smashed,              \* history: memset ran past the end of local_extra
  ioFailed,             \* history: a write or seek of overwrite_field failed, this run
  diag,                 \* last diagnostic printed: <<kind, value>>
  run,                  \* 1 for the first run on the archive, 2 for the second
  file1,                \* the archive as the first run left it
  status1               \* exit status of the first run

vars == <<arch, file, pos, pc, status, zf, closes, eocd_header, cd_header,
          lf_header, local_extra, dir_entry, current_cd_position, written,
          smashed, ioFailed, diag, run, file1, status1>>

-----------------------------------------------------------------------------
(* Bounds of the model *)

\* largest number of central-directory entries of a generated archive
MaxEntries == 2

-----------------------------------------------------------------------------
(* Bytes and packed little-endian fields *)

Max(a, b) == IF a >= b THEN a ELSE b

\* A uint32_t is kept as << low 16 bits, high 16 bits >>: the integers of the
\* checker are 32-bit signed.
U32(n) == << n % 65536, n \div 65536 >>

\* a uint32_t used as a file offset.  Offsets of 2^30 and more are all far past
\* the end of every archive of the model and are kept as 2^30.
FarOffset == 2^30
U32Offset(u) == IF u[2] >= 16384 THEN FarOffset ELSE u[1] + 65536 * u[2]

\* uint16_t / uint32_t stored in a packed struct on a little-endian host
LE16Bytes(v) == << v % 256, (v \div 256) % 256 >>
LE32Bytes(u) == LE16Bytes(u[1]) \o LE16Bytes(u[2])

\* the uint16_t / uint32_t field at byte offset off (0-based) of struct bytes s
LE16(s, off) == s[off + 1] + 256 * s[off + 2]
LE32(s, off) == << LE16(s, off), LE16(s, off + 2) >>

\* n bytes of value b
Fill(n, b) == IF n <= 0 THEN << >> ELSE [i \in 1..n |-> b]

\* s with the bytes of d stored at byte offset off (a field assignment inside s)
PutBytes(s, off, d) ==
  SubSeq(s, 1, off) \o d \o SubSeq(s, off + Len(d) + 1, Len(s))

RECURSIVE BitAnd(_, _)
BitAnd(a, b) ==
  IF a = 0 \/ b = 0 THEN 0
  ELSE (a % 2) * (b % 2) + 2 * BitAnd(a \div 2, b \div 2)

RECURSIVE BitOr(_, _)
BitOr(a, b) ==
  IF a = 0 THEN b
  ELSE IF b = 0 THEN a
  ELSE Max(a % 2, b % 2) + 2 * BitOr(a \div 2, b \div 2)

-----------------------------------------------------------------------------
(* Constants of the source *)

FILE_HEADER_SIGNATURE == << 19280, 1027 >>        \* 0x04034b50
CENDIR_HEADER_SIGNATURE == << 19280, 513 >>       \* 0x02014b50
EO_CENDIR_HEADER_SIGNATURE == << 19280, 1541 >>   \* 0x06054b50

GPB_ENCRYPTION_MASK == 1 * 2^0
GPB_METHOD_6_DETAIL == 3 * 2^1
GPB_NOT_SEEKABLE == 1 * 2^3
GPB_METHOD_8_ENH_DEFLATE == 1 * 2^4
GPB_PATCH_DATA == 1 * 2^5
GPB_STRONG_ENCRYPTION_MASK == 1 * 2^6
GPB_UT8_ENCODING == 1 * 2^11
GPB_CD_ENCRYPTED_MASK == 1 * 2^13

GP_BIT_ENC_MARKERS ==
  BitOr(GPB_ENCRYPTION_MASK, BitOr(GPB_STRONG_ENCRYPTION_MASK, GPB_CD_ENCRYPTED_MASK))

\* ~(...) truncated to uint16_t
GP_BIT_UNKNOWN_FLAG_MASK ==
  (2^16 - 1) -
  BitOr(GPB_ENCRYPTION_MASK, BitOr(GPB_METHOD_6_DETAIL, BitOr(GPB_NOT_SEEKABLE,
  BitOr(GPB_METHOD_8_ENH_DEFLATE, BitOr(GPB_PATCH_DATA,
  BitOr(GPB_STRONG_ENCRYPTION_MASK, BitOr(GPB_UT8_ENCODING, GPB_CD_ENCRYPTED_MASK)))))))

STRIPZIP_OPTION_HEADER == 65535            \* 0xFFFF
ID_EXTENDED_TIME == 21589                  \* case 0x5455
ID_UNIX_EXTRA == 30837                     \* case 0x7875
ZIP64_SIZE_OF_CD == << 65535, 65535 >>     \* 0xFFFFFFFF
UINT16_MAX == 65535                        \* size of local_extra

\* sizeof of the packed structs
SizeofLocalFileHeader == 30
SizeofCentralDirectoryHeader == 46
SizeofEOCD == 22
SizeofExtraHeader == 4

\* exit statuses: return 0, return -1 (seen as 255), and a run killed by the
\* stack protector or a fault after memset left the buffer (SIGABRT, 134)
ExitOK == 0
ExitFail == 255
ExitCrash == 134

\* fields of local_file_header_t
lf_signature(h) == LE32(h, 0)
lf_gp_bits(h) == LE16(h, 6)
lf_last_mod_time(h) == LE16(h, 10)
lf_last_mod_date(h) == LE16(h, 12)
lf_name_length(h) == LE16(h, 26)
lf_extra_field_length(h) == LE16(h, 28)

\* fields of central_directory_header_t
cd_signature(h) == LE32(h, 0)
cd_gp_bits(h) == LE16(h, 8)
cd_last_mod_time(h) == LE16(h, 12)
cd_last_mod_date(h) == LE16(h, 14)
cd_file_name_length(h) == LE16(h, 28)
cd_extra_field_length(h) == LE16(h, 30)
cd_file_comment_length(h) == LE16(h, 32)
cd_rel_offset_local_header(h) == LE32(h, 42)

\* fields of end_of_central_directory_header_t
eocd_signature(h) == LE32(h, 0)
eocd_disk_number(h) == LE16(h, 4)
eocd_total_num_entries_cd(h) == LE16(h, 10)
eocd_size_of_cd(h) == LE32(h, 12)
eocd_cd_offset_in_first_disk(h) == LE32(h, 16)

-----------------------------------------------------------------------------
(* stdio on the archive *)

\* fread(buf, len, 1, zf) == 1 at position p: all len bytes are there.  A
\* request of 0 bytes returns 0 items, so it is never equal to 1u.
FreadOk(f, p, len) == len > 0 /\ p + len <= Len(f)

\* the bytes such a read stores
FreadData(f, p, len) == SubSeq(f, p + 1, p + len)

\* the file after len(d) bytes are written at offset start (0-based); a write
\* that ends past the end of the file extends it (a gap reads as zero)
WriteAt(f, start, d) ==
  IF start <= Len(f)
    THEN SubSeq(f, 1, start) \o d \o SubSeq(f, start + Len(d) + 1, Len(f))
    ELSE f \o Fill(start - Len(f), 0) \o d

\* outcomes of the environment for one call of overwrite_field
IoOutcomes == {"ok", "short", "seekfail"}

\* a plausible slip: the seek back is missing, the data lands after the field
OverwriteFieldNoSeek(data, f, p, io) ==
  [file |-> WriteAt(f, p, data), pos |-> p + Len(data),
   wrote |-> p .. (p + Len(data) - 1), failed |-> FALSE]

\* a plausible slip: the stream is left at the start of the field
OverwriteFieldRewind(data, f, p, io) ==
  LET start == IF p < Len(data) THEN p ELSE p - Len(data)
  IN [file |-> WriteAt(f, start, data), pos |-> start,
      wrote |-> start .. (start + Len(data) - 1), failed |-> FALSE]

\* overwrite_field(data, len, fd) with the stream at p.  fseek's result is not
\* looked at: when it fails the position stays and the write goes to p.  A
\* write that transfers nothing makes ERR_IF_NEQ print; nothing is returned.
\*   file, pos: the archive and the position afterwards
\*   wrote: the offsets written; failed: ERR_IF_NEQ printed
OverwriteField(data, f, p, io) ==
  LET len == Len(data)
      start == IF io = "seekfail" \/ p < len THEN p ELSE p - len
  IN IF io = "short"
       THEN [file |-> f, pos |-> start, wrote |-> {}, failed |-> TRUE]
       ELSE [file |-> WriteAt(f, start, data), pos |-> start + len,
             wrote |-> start .. (start + len - 1), failed |-> FALSE]

-----------------------------------------------------------------------------
(* The local_extra buffer and purify_extra_data                            *)
(*                                                                         *)
(* local_extra is an uninitialised char[UINT16_MAX].  It is kept as        *)
(*   pre:  the cells that hold a definite byte, from index 0               *)
(*   ffTo: cells from Len(pre) up to ffTo (exclusive) hold 0xFF (memset)   *)
(* and every cell past both is indeterminate.  A read of an indeterminate  *)
(* cell yields g, a byte the caller draws from StaleBytes.                 *)

StaleBytes == {0, 84, 255}

EmptyBuffer == [pre |-> << >>, ffTo |-> 0]

Cell(buf, i, g) ==
  IF i < Len(buf.pre) THEN buf.pre[i + 1]
  ELSE IF i < buf.ffTo THEN 255 ELSE g

\* buf with cells 0..n-1 made definite
Materialize(buf, n, g) ==
  IF n <= Len(buf.pre) THEN buf
  ELSE [pre |-> buf.pre \o [i \in 1..(n - Len(buf.pre)) |->
                              Cell(buf, Len(buf.pre) + i - 1, g)],
        ffTo |-> buf.ffTo]

\* fread(local_extra, len, 1, zf): the first len cells are replaced
FreadInto(buf, d) ==
  [pre |-> d \o SubSeq(buf.pre, Len(d) + 1, Len(buf.pre)), ffTo |-> buf.ffTo]

\* memset(extra_data + a, 0xFF, n), for a <= Len(buf.pre)
Memset(buf, a, n) ==
  LET m == IF a + n <= Len(buf.pre) THEN n ELSE Len(buf.pre) - a
  IN [pre |-> PutBytes(buf.pre, a, Fill(m, 255)),
      ffTo |-> IF n > 0 THEN Max(buf.ffTo, a + n) ELSE buf.ffTo]

\* the ids purify_extra_data neutralises (case 0x5455, case 0x7875)
IsVolatileId(id) == id = ID_EXTENDED_TIME \/ id = ID_UNIX_EXTRA

\* cells 0..n-1 are not all definite: reading them reads indeterminate bytes
ReadsStale(buf, n) == n > Len(buf.pre) /\ n > buf.ffTo

\* the while loop of purify_extra_data from offset on.
\*   ok: the return value; buf: the buffer afterwards;
\*   oob: memset wrote past the UINT16_MAX cells of local_extra;
\*   stale: a sub-record header was read from indeterminate cells;
\*   hi: one past the highest cell a header was read from or memset wrote to
RECURSIVE PurifyFrom(_, _, _, _, _, _, _)

\* one iteration: the switch on hdr->id for the header at offset of b1, the
\* buffer with the four cells of that header made definite
PurifyRecord(offset, len, b1, g, oob, st, hi) ==
  LET id == LE16(b1.pre, offset)
      length == LE16(b1.pre, offset + 2)
      data == offset + SizeofExtraHeader
  IN IF IsVolatileId(id)
       THEN PurifyFrom(data + length, len,
              Memset([b1 EXCEPT !.pre = PutBytes(b1.pre, offset,
                                           LE16Bytes(STRIPZIP_OPTION_HEADER))],
                     data, length),
              g, oob \/ data + length > UINT16_MAX, st, Max(hi, data + length))
     ELSE IF id = STRIPZIP_OPTION_HEADER
       THEN PurifyFrom(data + length, len, b1, g, oob, st, Max(hi, data))
     ELSE [ok |-> FALSE, buf |-> b1, oob |-> oob, stale |-> st, hi |-> Max(hi, data)]

PurifyFrom(offset, len, buf, g, oob, stale, hi) ==
  IF ~(offset < len)
    THEN [ok |-> TRUE, buf |-> buf, oob |-> oob, stale |-> stale, hi |-> hi]
  ELSE CHOOSE r \in {PurifyRecord(offset, len, b1, g, oob,
                                  stale \/ ReadsStale(buf, offset + SizeofExtraHeader),
                                  hi) :
                       b1 \in {Materialize(buf, offset + SizeofExtraHeader, g)}} : TRUE

\* purify_extra_data(len, local_extra)
PurifyExtraData(len, buf, g) == PurifyFrom(0, len, buf, g, FALSE, FALSE, 0)

\* the values the indeterminate cells can show to purify_extra_data(len, buf):
\* one is enough when it reads none of them
StaleChoices(len, buf) ==
  IF PurifyExtraData(len, buf, 0).stale THEN StaleBytes ELSE {0}

\* whether the run can die in purify_extra_data(len, buf): only after a memset
\* past the end of the buffer
CrashChoices(len, buf, g) ==
  IF PurifyExtraData(len, buf, g).oob THEN BOOLEAN ELSE {FALSE}

\* a plausible slip: only the classic encryption bit is tested
HasEncMarkersBit0Only(gp) == BitAnd(gp, GPB_ENCRYPTION_MASK) # 0

\* a plausible slip: the flags are taken as one byte
HasUnknownFlagsLowByte(gp) == BitAnd(gp % 256, GP_BIT_UNKNOWN_FLAG_MASK) # 0

\* the flag tests of main, on a gp_bits value
HasEncMarkers(gp) == BitAnd(gp, GP_BIT_ENC_MARKERS) # 0
HasUnknownFlags(gp) == BitAnd(gp, GP_BIT_UNKNOWN_FLAG_MASK) # 0

\* a plausible slip: only the date is cleared
ZeroCdTimesDateOnly(h) == PutBytes(h, 14, LE16Bytes(0))

\* cd_header.last_mod_date = 0; cd_header.last_mod_time = 0;
ZeroCdTimes(h) == PutBytes(PutBytes(h, 14, LE16Bytes(0)), 12, LE16Bytes(0))

\* lf_header.last_mod_date = 0; lf_header.last_mod_time = 0;
ZeroLfTimes(h) == PutBytes(PutBytes(h, 12, LE16Bytes(0)), 10, LE16Bytes(0))

-----------------------------------------------------------------------------
(* The archives given to the program                                       *)
(*                                                                         *)
(* An archive is laid out as the local file headers (each followed by its  *)
(* file name, extra field and data), the central directory (each entry     *)
(* followed by its file name, extra field and file comment, the order of   *)
(* the ZIP specification the source refers to) and the trailer.            *)

\* extra fields: sequences of sub-records (id, length, payload)
X_ts == << 85, 84, 1, 0, 7 >>                      \* 0x5455, 1 byte
X_ts0 == << 85, 84, 0, 0 >>                        \* 0x5455, empty
X_sent0 == << 255, 255, 0, 0 >>                    \* 0xFFFF, empty
X_ux_sent == << 117, 120, 0, 0, 255, 255, 1, 0, 9 >>  \* 0x7875 then 0xFFFF
X_unk == << 10, 0, 0, 0 >>                         \* unknown id 0x000A
X_ts_unk == << 85, 84, 0, 0, 10, 0, 0, 0 >>        \* 0x5455 then unknown
X_frag == << 85 >>                                 \* 1 byte: no whole header
X_frag2 == << 85, 84 >>                            \* an id without its length
X_over == << 85, 84, 2, 0, 7 >>                    \* payload longer than the field
X_sent_frag == << 255, 255, 0, 0, 255 >>           \* 0xFFFF, then 1 byte

\* file comments
C_sent == << 255, 255, 0, 0 >>
C_ut == << 85, 84, 0, 0 >>
C_hi == << 104, 105 >>

FileData == << 170 >>

Base ==
  [name |-> << 97 >>, cdGp |-> 0, lfGp |-> 0, cdExtra |-> << >>,
   lfExtra |-> << >>, comment |-> << >>, cdSig |-> CENDIR_HEADER_SIGNATURE,
   lfSig |-> FILE_HEADER_SIGNATURE, lfOffBad |-> FALSE]

\* Base with one part changed, and the pairs of extra field and comment
EntryKinds ==
  {Base, [Base EXCEPT !.cdGp = 2110, !.lfGp = 2110], [Base EXCEPT !.name = << >>],
   [Base EXCEPT !.cdSig = U32(0)], [Base EXCEPT !.lfSig = U32(0)],
   [Base EXCEPT !.lfOffBad = TRUE]}
  \cup {[Base EXCEPT !.cdGp = g] : g \in {1, 128}}
  \cup {[Base EXCEPT !.lfGp = g] : g \in {64, 32768}}
  \cup {[Base EXCEPT !.cdExtra = x] :
          x \in {X_ts, X_ux_sent, X_unk, X_ts_unk, X_frag, X_frag2, X_over}}
  \cup {[Base EXCEPT !.lfExtra = x] : x \in {X_ts, X_unk, X_frag}}
  \cup {[Base EXCEPT !.cdExtra = X_ts, !.lfExtra = X_ts],
        [Base EXCEPT !.cdExtra = X_ts, !.lfExtra = X_frag2],
        [Base EXCEPT !.cdExtra = X_over, !.lfExtra = X_sent_frag]}
  \cup {[Base EXCEPT !.cdExtra = xc[1], !.comment = xc[2]] :
          xc \in {<< << >>, C_sent >>, << X_unk, C_sent >>, << X_ts0, C_sent >>,
                  << X_sent0, C_ut >>, << X_ts, C_hi >>}}

\* trailers: a good one, and the ones main rejects or cannot follow
BadTrailers == {"badsig", "disk", "zip64", "count", "tiny"}

\* the archives of up to MaxEntries entries drawn from kinds
ArchivesOver(kinds) ==
  {[entries |-> es, trailer |-> "ok"] :
     es \in UNION {[1..n -> kinds] : n \in 0..MaxEntries}}
  \cup {[entries |-> [i \in 1..n |-> Base], trailer |-> t] :
          n \in 0..MaxEntries, t \in BadTrailers}

Archives == ArchivesOver(EntryKinds)

\* one entry kind for each way an iteration can end: done, done after two
\* sub-records, done after a local extra field, done with a comment, rejected
\* for an unknown id, rejected at the local header, killed in memset
LiveKinds ==
  {Base, [Base EXCEPT !.cdExtra = X_ux_sent], [Base EXCEPT !.lfExtra = X_ts],
   [Base EXCEPT !.cdExtra = X_ts0, !.comment = C_sent],
   [Base EXCEPT !.cdExtra = X_unk], [Base EXCEPT !.lfGp = 64],
   [Base EXCEPT !.cdExtra = X_frag2]}

\* one entry, whose central-directory record or local header has as gp_bits
\* every value of bits 0..11, and every value of bits 12..15 over no other
\* bit, over all the recognised bits and over all of bits 0..11
GpValues ==
  (0 .. (2^12 - 1))
  \cup {lo + 2^12 * hi : lo \in {0, 2110, 2^12 - 1}, hi \in 0 .. 15}
FlagArchives ==
  {[entries |-> << [Base EXCEPT !.cdGp = g] >>, trailer |-> "ok"] : g \in GpValues}
  \cup {[entries |-> << [Base EXCEPT !.lfGp = g] >>, trailer |-> "ok"] : g \in GpValues}

LocalSize(e) ==
  SizeofLocalFileHeader + Len(e.name) + Len(e.lfExtra) + Len(FileData)
CdSize(e) ==
  SizeofCentralDirectoryHeader + Len(e.name) + Len(e.cdExtra) + Len(e.comment)

RECURSIVE SumLocal(_, _)
SumLocal(es, k) == IF k = 0 THEN 0 ELSE SumLocal(es, k - 1) + LocalSize(es[k])
RECURSIVE SumCd(_, _)
SumCd(es, k) == IF k = 0 THEN 0 ELSE SumCd(es, k - 1) + CdSize(es[k])

\* offsets (0-based) of the k-th local header, of the central directory, of
\* its k-th entry and of the trailer
LocalStart(es, k) == SumLocal(es, k - 1)
CdOffset(es) == SumLocal(es, Len(es))
CdStart(es, k) == CdOffset(es) + SumCd(es, k - 1)
EocdStart(es) == CdOffset(es) + SumCd(es, Len(es))
ArchiveLen(es) == EocdStart(es) + SizeofEOCD

LocalBytes(e) ==
  LE32Bytes(e.lfSig) \o LE16Bytes(20) \o LE16Bytes(e.lfGp) \o LE16Bytes(8)
  \o LE16Bytes(4660) \o LE16Bytes(22136) \o LE32Bytes(U32(0))
  \o LE32Bytes(U32(Len(FileData))) \o LE32Bytes(U32(Len(FileData)))
  \o LE16Bytes(Len(e.name)) \o LE16Bytes(Len(e.lfExtra))
  \o e.name \o e.lfExtra \o FileData

CdBytes(e, off) ==
  LE32Bytes(e.cdSig) \o LE16Bytes(20) \o LE16Bytes(20) \o LE16Bytes(e.cdGp)
  \o LE16Bytes(8) \o LE16Bytes(4660) \o LE16Bytes(22136) \o LE32Bytes(U32(0))
  \o LE32Bytes(U32(Len(FileData))) \o LE32Bytes(U32(Len(FileData)))
  \o LE16Bytes(Len(e.name)) \o LE16Bytes(Len(e.cdExtra))
  \o LE16Bytes(Len(e.comment)) \o LE16Bytes(0) \o LE16Bytes(0)
  \o LE32Bytes(U32(0)) \o LE32Bytes(U32(off))
  \o e.name \o e.cdExtra \o e.comment

EocdBytes(es, t) ==
  LE32Bytes(IF t = "badsig" THEN U32(0) ELSE EO_CENDIR_HEADER_SIGNATURE)
  \o LE16Bytes(IF t = "disk" THEN 1 ELSE 0) \o LE16Bytes(0)
  \o LE16Bytes(Len(es)) \o LE16Bytes(IF t = "count" THEN Len(es) + 1 ELSE Len(es))
  \o LE32Bytes(IF t = "zip64" THEN ZIP64_SIZE_OF_CD ELSE U32(SumCd(es, Len(es))))
  \o LE32Bytes(U32(CdOffset(es))) \o LE16Bytes(0)

RECURSIVE LocalsBytes(_, _)
LocalsBytes(es, k) ==
  IF k = 0 THEN << >> ELSE LocalsBytes(es, k - 1) \o LocalBytes(es[k])
RECURSIVE CdsBytes(_, _)
CdsBytes(es, k) ==
  IF k = 0 THEN << >>
  ELSE CdsBytes(es, k - 1)
       \o CdBytes(es[k], IF es[k].lfOffBad THEN ArchiveLen(es) ELSE LocalStart(es, k))

\* the bytes of archive a
BuildFile(a) ==
  IF a.trailer = "tiny" THEN << 80, 75, 5, 6 >>
  ELSE LocalsBytes(a.entries, Len(a.entries)) \o CdsBytes(a.entries, Len(a.entries))
       \o EocdBytes(a.entries, a.trailer)

\* the archive as it was given to the first run
InputFile == BuildFile(arch)

-----------------------------------------------------------------------------
(* main                                                                    *)

NoDiag == << "none", 0 >>
Running == 0 - 1

InitOver(archives) ==
  /\ arch \in archives
  /\ file = BuildFile(arch)
  /\ pos = 0
  /\ pc = "start"
  /\ status = Running
  /\ zf = "null"
  /\ closes = 0
  /\ eocd_header = << >>
  /\ cd_header = << >>
  /\ lf_header = << >>
  /\ local_extra = EmptyBuffer
  /\ dir_entry = 0
  /\ current_cd_position = 0
  /\ written = {}
  /\ smashed = FALSE
  /\ ioFailed = FALSE
  /\ diag = NoDiag
  /\ run = 1
  /\ file1 = << >>
  /\ status1 = Running

Init == InitOver(Archives)

\* position after fread(buf, len, 1, zf) at p returned 0: nothing was asked
\* for, or the stream ran into the end of the file
ShortReadPos(p, len) == IF len = 0 THEN p ELSE Max(p, Len(file))

\* zf = fopen(argv[1], "r+"): ERR_RET_IF_NOT returns -1 when it fails
Open(opened) ==
  /\ pc = "start"
  /\ IF opened
       THEN /\ zf' = "open"
            /\ pc' = "trailer"
            /\ UNCHANGED <<status, diag>>
       ELSE /\ zf' = "null"
            /\ pc' = "done"
            /\ status' = ExitFail
            /\ diag' = << "ERR_RET_IF_NOT", 164 >>
  /\ pos' = 0
  /\ UNCHANGED <<arch, file, closes, eocd_header, cd_header, lf_header,
                 local_extra, dir_entry, current_cd_position, written, smashed,
                 ioFailed, run, file1, status1>>

\* "Get the EO CenDir header": the seek to the last sizeof(EOCD) bytes, the
\* read, the three tests, and the seek to the central directory
TrailerResult ==
  LET p == Len(file) - SizeofEOCD
      h == FreadData(file, p, SizeofEOCD)
  IN IF Len(file) < SizeofEOCD
       THEN [pc |-> "done", status |-> ExitFail, pos |-> pos, hdr |-> eocd_header,
             diag |-> << "ERR_RET_ON_ERRNO", 167 >>]
     ELSE IF eocd_signature(h) # EO_CENDIR_HEADER_SIGNATURE
       THEN [pc |-> "done", status |-> ExitFail, pos |-> Len(file), hdr |-> h,
             diag |-> << "Did not get a good end of directory header", 0 >>]
     ELSE IF eocd_disk_number(h) # 0
       THEN [pc |-> "done", status |-> ExitFail, pos |-> Len(file), hdr |-> h,
             diag |-> << "Split archive", 0 >>]
     ELSE IF eocd_size_of_cd(h) = ZIP64_SIZE_OF_CD
       THEN [pc |-> "done", status |-> ExitFail, pos |-> Len(file), hdr |-> h,
             diag |-> << "This is a Zip64 file", 0 >>]
     ELSE [pc |-> "loop", status |-> status, pos |-> U32Offset(eocd_cd_offset_in_first_disk(h)),
           hdr |-> h, diag |-> diag]

\* a plausible slip: the disk number is not looked at
ReadTrailerNoDiskTest ==
  /\ pc = "trailer"
  /\ LET r == TrailerResult
         h == FreadData(file, Len(file) - SizeofEOCD, SizeofEOCD)
         skip == r.diag = << "Split archive", 0 >>
     IN /\ pc' = IF skip THEN "loop" ELSE r.pc
        /\ status' = IF skip THEN status ELSE r.status
        /\ pos' = IF skip THEN U32Offset(eocd_cd_offset_in_first_disk(h)) ELSE r.pos
        /\ eocd_header' = r.hdr
        /\ diag' = IF skip THEN diag ELSE r.diag
  /\ dir_entry' = 0
  /\ UNCHANGED <<arch, file, zf, closes, cd_header, lf_header, local_extra,
                 current_cd_position, written, smashed, ioFailed, run, file1,
                 status1>>

ReadTrailer ==
  /\ pc = "trailer"
  /\ \E r \in {TrailerResult} :
        /\ pc' = r.pc
        /\ status' = r.status
        /\ pos' = r.pos
        /\ eocd_header' = r.hdr
        /\ diag' = r.diag
  /\ dir_entry' = 0
  /\ UNCHANGED <<arch, file, zf, closes, cd_header, lf_header, local_extra,
                 current_cd_position, written, smashed, ioFailed, run, file1,
                 status1>>

\* the loop body up to overwrite_field(&cd_header, ...): read the entry, test
\* signature and flags, zero time and date, write the header back
CdHeaderResult(io) ==
  LET h == FreadData(file, pos, SizeofCentralDirectoryHeader)
      w == OverwriteField(ZeroCdTimes(h), file, pos + SizeofCentralDirectoryHeader, io)
      stop(hd, p, d) == [pc |-> "done", status |-> ExitFail, file |-> file,
                         pos |-> p, hdr |-> hd, wrote |-> {}, failed |-> FALSE,
                         diag |-> d]
  IN IF ~FreadOk(file, pos, SizeofCentralDirectoryHeader)
       THEN stop(cd_header, ShortReadPos(pos, SizeofCentralDirectoryHeader),
                 << "ERR_RET_IF_NEQ", 196 >>)
     ELSE IF cd_signature(h) # CENDIR_HEADER_SIGNATURE
       THEN stop(h, pos + SizeofCentralDirectoryHeader,
                 << "Central directory signature bad", 0 >>)
     ELSE IF HasEncMarkers(cd_gp_bits(h))
       THEN stop(h, pos + SizeofCentralDirectoryHeader, << "Entry encrypted", 0 >>)
     ELSE IF HasUnknownFlags(cd_gp_bits(h))
       THEN stop(h, pos + SizeofCentralDirectoryHeader,
                 << "Entry has strange general purpose bits", cd_gp_bits(h) >>)
     ELSE [pc |-> "names", status |-> status, file |-> w.file, pos |-> w.pos,
           hdr |-> ZeroCdTimes(h), wrote |-> w.wrote,
           failed |-> w.failed \/ io = "seekfail",
           diag |-> IF w.failed THEN << "ERR_IF_NEQ", 107 >> ELSE diag]

CdHeader(io) ==
  /\ pc = "loop"
  /\ dir_entry < eocd_total_num_entries_cd(eocd_header)
  /\ \E r \in {CdHeaderResult(io)} :
        /\ pc' = r.pc
        /\ status' = r.status
        /\ file' = r.file
        /\ pos' = r.pos
        /\ cd_header' = r.hdr
        /\ written' = written \cup r.wrote
        /\ ioFailed' = (ioFailed \/ r.failed)
        /\ diag' = r.diag
  /\ UNCHANGED <<arch, zf, closes, eocd_header, lf_header, local_extra, dir_entry,
                 current_cd_position, smashed, run, file1, status1>>

\* "Get the file name and comment": the name is read whatever its length, the
\* comment only when it has one
NamesResult ==
  LET n == cd_file_name_length(cd_header)
      c == cd_file_comment_length(cd_header)
  IN IF ~FreadOk(file, pos, n)
       THEN [pc |-> "done", status |-> ExitFail, pos |-> ShortReadPos(pos, n),
             diag |-> << "ERR_RET_IF_NEQ", 221 >>]
     ELSE IF c > 0 /\ ~FreadOk(file, pos + n, c)
       THEN [pc |-> "done", status |-> ExitFail, pos |-> ShortReadPos(pos + n, c),
             diag |-> << "ERR_RET_IF_NEQ", 224 >>]
     ELSE [pc |-> "cdextra", status |-> status, pos |-> pos + n + c, diag |-> diag]

Names ==
  /\ pc = "names"
  /\ \E r \in {NamesResult} :
        /\ pc' = r.pc
        /\ status' = r.status
        /\ pos' = r.pos
        /\ diag' = r.diag
  /\ UNCHANGED <<arch, file, zf, closes, eocd_header, cd_header, lf_header,
                 local_extra, dir_entry, current_cd_position, written, smashed,
                 ioFailed, run, file1, status1>>

\* a plausible slip: the buffer is written back before the result of
\* purify_extra_data is looked at
ExtraResultWriteFirst(p, len, next, line, io, g, crash) ==
  LET d == FreadData(file, p, len)
      r == PurifyExtraData(len, FreadInto(local_extra, d), g)
      w == OverwriteField(SubSeq(r.buf.pre, 1, len), file, p + len, io)
      stop(st, q, b, o, dg) == [pc |-> "done", status |-> st, file |-> file,
                                pos |-> q, buf |-> b, wrote |-> {},
                                failed |-> FALSE, oob |-> o, diag |-> dg]
  IN IF len = 0
       THEN [pc |-> next, status |-> status, file |-> file, pos |-> p,
             buf |-> local_extra, wrote |-> {}, failed |-> FALSE, oob |-> FALSE,
             diag |-> diag]
     ELSE IF ~FreadOk(file, p, len)
       THEN stop(ExitFail, ShortReadPos(p, len), local_extra, FALSE,
                 << "ERR_RET_IF_NEQ", line >>)
     ELSE IF r.oob /\ crash
       THEN stop(ExitCrash, p + len, r.buf, TRUE, << "killed", 137 >>)
     ELSE IF ~r.ok
       THEN [pc |-> "done", status |-> ExitFail, file |-> w.file, pos |-> w.pos,
             buf |-> r.buf, wrote |-> w.wrote, failed |-> FALSE, oob |-> r.oob,
             diag |-> << "Unknown extra header", 0 >>]
     ELSE [pc |-> next, status |-> status, file |-> w.file, pos |-> w.pos,
           buf |-> r.buf, wrote |-> w.wrote, failed |-> w.failed \/ io = "seekfail",
           oob |-> r.oob,
           diag |-> IF w.failed THEN << "ERR_IF_NEQ", 107 >> ELSE diag]

\* "if (extra_field_length) { fread; purify_extra_data; overwrite_field }" for
\* an extra field of len bytes with the stream at p; next is where main goes
\* on, line the line of the fread.  g is the byte indeterminate cells show,
\* crash whether a memset past the buffer kills the run.
ExtraResult(p, len, next, line, io, g, crash) ==
  LET d == FreadData(file, p, len)
      r == PurifyExtraData(len, FreadInto(local_extra, d), g)
      w == OverwriteField(SubSeq(r.buf.pre, 1, len), file, p + len, io)
      stop(st, q, b, o, dg) == [pc |-> "done", status |-> st, file |-> file,
                                pos |-> q, buf |-> b, wrote |-> {},
                                failed |-> FALSE, oob |-> o, diag |-> dg]
  IN IF len = 0
       THEN [pc |-> next, status |-> status, file |-> file, pos |-> p,
             buf |-> local_extra, wrote |-> {}, failed |-> FALSE, oob |-> FALSE,
             diag |-> diag]
     ELSE IF ~FreadOk(file, p, len)
       THEN stop(ExitFail, ShortReadPos(p, len), local_extra, FALSE,
                 << "ERR_RET_IF_NEQ", line >>)
     ELSE IF r.oob /\ crash
       THEN stop(ExitCrash, p + len, r.buf, TRUE, << "killed", 137 >>)
     ELSE IF ~r.ok
       THEN stop(ExitFail, p + len, r.buf, r.oob, << "Unknown extra header", 0 >>)
     ELSE [pc |-> next, status |-> status, file |-> w.file, pos |-> w.pos,
           buf |-> r.buf, wrote |-> w.wrote, failed |-> w.failed \/ io = "seekfail",
           oob |-> r.oob,
           diag |-> IF w.failed THEN << "ERR_IF_NEQ", 107 >> ELSE diag]

\* the choices of the environment for the extra field of len bytes at p
ExtraStale(p, len) ==
  IF FreadOk(file, p, len)
    THEN StaleChoices(len, FreadInto(local_extra, FreadData(file, p, len)))
    ELSE {0}
ExtraCrash(p, len, g) ==
  IF FreadOk(file, p, len)
    THEN CrashChoices(len, FreadInto(local_extra, FreadData(file, p, len)), g)
    ELSE {FALSE}

\* "Get and purify the extra data" of the central-directory entry
CdExtra(io) ==
  /\ pc = "cdextra"
  /\ \E g \in ExtraStale(pos, cd_extra_field_length(cd_header)) :
     \E crash \in ExtraCrash(pos, cd_extra_field_length(cd_header), g) :
     \E r \in {ExtraResult(pos, cd_extra_field_length(cd_header), "local", 232,
                            io, g, crash)} :
          /\ pc' = r.pc
          /\ status' = r.status
          /\ file' = r.file
          /\ pos' = r.pos
          /\ local_extra' = r.buf
          /\ written' = written \cup r.wrote
          /\ ioFailed' = (ioFailed \/ r.failed)
          /\ smashed' = (smashed \/ r.oob)
          /\ diag' = r.diag
  /\ UNCHANGED <<arch, zf, closes, eocd_header, cd_header, lf_header, dir_entry,
                 current_cd_position, run, file1, status1>>

\* "Now deal with the local header": remember the position, seek to the local
\* header, read it, test signature and flags, zero time and date, write it back
LocalHeaderResult(io) ==
  LET p == U32Offset(cd_rel_offset_local_header(cd_header))
      h == FreadData(file, p, SizeofLocalFileHeader)
      w == OverwriteField(ZeroLfTimes(h), file, p + SizeofLocalFileHeader, io)
      stop(hd, q, d) == [pc |-> "done", status |-> ExitFail, file |-> file,
                         pos |-> q, hdr |-> hd, wrote |-> {}, failed |-> FALSE,
                         diag |-> d]
  IN IF ~FreadOk(file, p, SizeofLocalFileHeader)
       THEN stop(lf_header, ShortReadPos(p, SizeofLocalFileHeader),
                 << "ERR_RET_IF_NEQ", 242 >>)
     ELSE IF lf_signature(h) # FILE_HEADER_SIGNATURE
       THEN stop(h, p + SizeofLocalFileHeader, << "ERR_RET_IF_NEQ", 243 >>)
     ELSE IF HasEncMarkers(lf_gp_bits(h))
       THEN stop(h, p + SizeofLocalFileHeader, << "Entry encrypted", 0 >>)
     ELSE IF HasUnknownFlags(lf_gp_bits(h))
       THEN stop(h, p + SizeofLocalFileHeader,
                 << "Entry has strange general purpose bits", cd_gp_bits(cd_header) >>)
     ELSE [pc |-> "lfextra", status |-> status, file |-> w.file, pos |-> w.pos,
           hdr |-> ZeroLfTimes(h), wrote |-> w.wrote,
           failed |-> w.failed \/ io = "seekfail",
           diag |-> IF w.failed THEN << "ERR_IF_NEQ", 107 >> ELSE diag]

LocalHeader(io) ==
  /\ pc = "local"
  /\ current_cd_position' = pos
  /\ \E r \in {LocalHeaderResult(io)} :
        /\ pc' = r.pc
        /\ status' = r.status
        /\ file' = r.file
        /\ pos' = r.pos
        /\ lf_header' = r.hdr
        /\ written' = written \cup r.wrote
        /\ ioFailed' = (ioFailed \/ r.failed)
        /\ diag' = r.diag
  /\ UNCHANGED <<arch, zf, closes, eocd_header, cd_header, local_extra, dir_entry,
                 smashed, run, file1, status1>>

\* a plausible slip: the stream is left where the local extra field ended
SeekBackToCdSkipped(p, saved) == p

\* a plausible slip: the position is remembered at the top of the iteration,
\* before the entry is read
SeekBackToLoopTop(p, saved) ==
  saved - SizeofCentralDirectoryHeader - cd_file_name_length(cd_header)
        - cd_extra_field_length(cd_header) - cd_file_comment_length(cd_header)

\* fseek(zf, current_cd_position, SEEK_SET) with the stream at p
SeekBackToCd(p, saved) == saved

\* the rest of the loop body: seek over the file name, "Take care of local
\* data extra", seek back to the remembered position, dir_entry++
LocalExtra(io) ==
  /\ pc = "lfextra"
  /\ \E g \in ExtraStale(pos + lf_name_length(lf_header),
                           lf_extra_field_length(lf_header)) :
     \E crash \in ExtraCrash(pos + lf_name_length(lf_header),
                              lf_extra_field_length(lf_header), g) :
     \E r \in {ExtraResult(pos + lf_name_length(lf_header),
                            lf_extra_field_length(lf_header), "loop", 266,
                            io, g, crash)} :
          /\ pc' = r.pc
          /\ status' = r.status
          /\ file' = r.file
          /\ pos' = IF r.pc = "loop" THEN SeekBackToCd(r.pos, current_cd_position)
                    ELSE r.pos
          /\ dir_entry' = IF r.pc = "loop" THEN dir_entry + 1 ELSE dir_entry
          /\ local_extra' = r.buf
          /\ written' = written \cup r.wrote
          /\ ioFailed' = (ioFailed \/ r.failed)
          /\ smashed' = (smashed \/ r.oob)
          /\ diag' = r.diag
  /\ UNCHANGED <<arch, zf, closes, eocd_header, cd_header, lf_header,
                 current_cd_position, run, file1, status1>>

\* the loop is over: fclose(zf); return 0;
Close ==
  /\ pc = "loop"
  /\ ~(dir_entry < eocd_total_num_entries_cd(eocd_header))
  /\ zf' = "closed"
  /\ closes' = closes + 1
  /\ status' = ExitOK
  /\ pc' = "done"
  /\ UNCHANGED <<arch, file, pos, eocd_header, cd_header, lf_header, local_extra,
                 dir_entry, current_cd_position, written, smashed, ioFailed, diag,
                 run, file1, status1>>

\* the program is started again on the archive the first run left: a new
\* process, with its own stream, locals and uninitialised buffer
Rerun ==
  /\ pc = "done"
  /\ run = 1
  /\ run' = 2
  /\ file1' = file
  /\ status1' = status
  /\ pos' = 0
  /\ pc' = "start"
  /\ status' = Running
  /\ zf' = "null"
  /\ closes' = 0
  /\ eocd_header' = << >>
  /\ cd_header' = << >>
  /\ lf_header' = << >>
  /\ local_extra' = EmptyBuffer
  /\ dir_entry' = 0
  /\ current_cd_position' = 0
  /\ written' = {}
  /\ smashed' = FALSE
  /\ ioFailed' = FALSE
  /\ diag' = NoDiag
  /\ UNCHANGED <<arch, file>>

\* one run, every library call succeeding
Next ==
  \/ Open(TRUE)
  \/ ReadTrailer
  \/ CdHeader("ok")
  \/ Names
  \/ CdExtra("ok")
  \/ LocalHeader("ok")
  \/ LocalExtra("ok")
  \/ Close

Spec == Init /\ [][Next]_vars

\* one run to its end: the program is one sequential process, and each step
\* is a finite sequence of statements and library calls that return.  The
\* archives are those of LiveKinds.
InitLive == InitOver(ArchivesOver(LiveKinds))

SpecLive == InitLive /\ [][Next]_vars /\ WF_vars(Next)

\* one run on each archive of FlagArchives
InitFlags == InitOver(FlagArchives)

SpecFlags == InitFlags /\ [][Next]_vars

\* a run followed by a second run on the same file
NextTwice == Next \/ Rerun

SpecTwice == Init /\ [][NextTwice]_vars

\* one run in which fopen, and the seek and the write of overwrite_field, may fail
NextIO ==
  \/ \E opened \in BOOLEAN : Open(opened)
  \/ ReadTrailer
  \/ \E io \in IoOutcomes : CdHeader(io)
  \/ Names
  \/ \E io \in IoOutcomes : CdExtra(io)
  \/ \E io \in IoOutcomes : LocalHeader(io)
  \/ \E io \in IoOutcomes : LocalExtra(io)
  \/ Close

SpecIO == Init /\ [][NextIO]_vars

-----------------------------------------------------------------------------
(* What the claims speak of: the records of the archive as it was given    *)

Entries == arch.entries
NumEntries == Len(arch.entries)
WellFormedTrailer == arch.trailer # "tiny"

InputLen == IF arch.trailer = "tiny" THEN 4 ELSE ArchiveLen(Entries)

Range(lo, n) == lo .. (lo + n - 1)

\* offsets of the parts of entry k (1-based)
CdRecArea(k) == Range(CdStart(Entries, k), SizeofCentralDirectoryHeader)
CdNameArea(k) ==
  Range(CdStart(Entries, k) + SizeofCentralDirectoryHeader, Len(Entries[k].name))
CdExtraStart(k) ==
  CdStart(Entries, k) + SizeofCentralDirectoryHeader + Len(Entries[k].name)
CdExtraArea(k) == Range(CdExtraStart(k), Len(Entries[k].cdExtra))
CdCommentArea(k) ==
  Range(CdExtraStart(k) + Len(Entries[k].cdExtra), Len(Entries[k].comment))
LfRecArea(k) == Range(LocalStart(Entries, k), SizeofLocalFileHeader)
LfExtraStart(k) ==
  LocalStart(Entries, k) + SizeofLocalFileHeader + Len(Entries[k].name)
LfExtraArea(k) == Range(LfExtraStart(k), Len(Entries[k].lfExtra))
EntryArea(k) == CdRecArea(k) \cup CdExtraArea(k) \cup LfRecArea(k) \cup LfExtraArea(k)

\* the run is over
Done == pc = "done"
Succeeded == pc = "done" /\ status = ExitOK

-----------------------------------------------------------------------------
(* C1  Length invariance: in every state of a run, finished, aborted or    *)
(* under way, the archive has the byte length it had when it was opened,   *)
(* and every byte written lies inside the file as it was.                  *)
C1_LengthInvariant ==
  /\ Len(file) = InputLen
  /\ written \subseteq 0 .. (InputLen - 1)

\* a finished run that rewrote the last central-directory entry, whose end
\* is less than a header's length away from the end of the file
C1_Witness ==
  /\ Succeeded
  /\ NumEntries >= 1
  /\ CdRecArea(NumEntries) \subseteq written
  /\ CdStart(Entries, NumEntries) + 2 * SizeofCentralDirectoryHeader > InputLen

(* C2  Timestamp erasure: after a run that ends with exit status 0, every  *)
(* central-directory entry, and the local file header at the offset the    *)
(* entry records, has last_mod_time = 0 and last_mod_date = 0 in the file. *)
C2_TimestampErasure ==
  Succeeded =>
    \A k \in 1..NumEntries :
      LET cd == FreadData(file, CdStart(Entries, k), SizeofCentralDirectoryHeader)
          lf == FreadData(file, U32Offset(cd_rel_offset_local_header(cd)),
                          SizeofLocalFileHeader)
      IN /\ cd_last_mod_time(cd) = 0 /\ cd_last_mod_date(cd) = 0
         /\ lf_last_mod_time(lf) = 0 /\ lf_last_mod_date(lf) = 0

\* a successful run over two entries, whose times were not zero before
C2_Witness ==
  /\ Succeeded
  /\ NumEntries = 2
  /\ cd_last_mod_time(FreadData(InputFile, CdStart(Entries, 2),
                                SizeofCentralDirectoryHeader)) # 0
  /\ lf_last_mod_date(FreadData(InputFile, LocalStart(Entries, 2),
                                SizeofLocalFileHeader)) # 0

-----------------------------------------------------------------------------
(* The rules of the format, stated on the archive as it was given          *)

Bit(v, i) == (v \div 2^i) % 2

\* a gp_bits value with an encryption bit (0, 6, 13) or a bit that is not named
AllowedFlagBits == {1, 2, 3, 4, 5, 11}
FlagsToReject(gp) == \E i \in (0..15) \ AllowedFlagBits : Bit(gp, i) = 1

\* the sub-records of extra field x from offset off on: each a 4-byte header
\* inside x and the payload it declares
RECURSIVE SubRecords(_, _)
SubRecords(x, off) ==
  IF off + SizeofExtraHeader > Len(x) THEN {}
  ELSE {[off |-> off, id |-> LE16(x, off), len |-> LE16(x, off + 2)]}
       \cup SubRecords(x, off + SizeofExtraHeader + LE16(x, off + 2))

\* the sub-records fill x exactly
RECURSIVE Tiles(_, _)
Tiles(x, off) ==
  \/ off = Len(x)
  \/ /\ off + SizeofExtraHeader <= Len(x)
     /\ Tiles(x, off + SizeofExtraHeader + LE16(x, off + 2))

KnownIds == {ID_EXTENDED_TIME, ID_UNIX_EXTRA, STRIPZIP_OPTION_HEADER}
HasUnknownId(x) == \E r \in SubRecords(x, 0) : r.id \notin KnownIds

\* sub-record r of the extra field that starts at offset base of f, a field
\* of n bytes, is neutralised: sentinel id, same length, payload all 0xFF
Neutralised(f, base, n, r) ==
  /\ LE16(f, base + r.off) = STRIPZIP_OPTION_HEADER
  /\ LE16(f, base + r.off + 2) = r.len
  /\ \A j \in (r.off + SizeofExtraHeader) .. (r.off + SizeofExtraHeader + r.len - 1) :
       j < n => f[base + j + 1] = 255

-----------------------------------------------------------------------------
(* C3  Extra-field neutralization: after a run that ends with exit status  *)
(* 0, every sub-record with id 0x5455 or 0x7875 of the extra field of any  *)
(* central-directory entry or local header of the input (the entry being   *)
(* laid out as name, extra field, comment) has id 0xFFFF, its length       *)
(* unchanged and every payload byte 0xFF in the file.                      *)
C3_Neutralization ==
  Succeeded =>
    \A k \in 1..NumEntries :
      /\ \A r \in SubRecords(Entries[k].cdExtra, 0) :
           IsVolatileId(r.id) =>
             Neutralised(file, CdExtraStart(k), Len(Entries[k].cdExtra), r)
      /\ \A r \in SubRecords(Entries[k].lfExtra, 0) :
           IsVolatileId(r.id) =>
             Neutralised(file, LfExtraStart(k), Len(Entries[k].lfExtra), r)

(* C4  Idempotence: a second run on the file the first run left leaves it  *)
(* byte-identical and ends with the exit status of the first run.          *)
C4_Idempotence ==
  (run = 2 /\ Done) => (file = file1 /\ status = status1)

(* C5  Fail-closed on flags, ordering (as stated): when the central-       *)
(* directory entry or the local header of entry k has a flag to reject,    *)
(* the run never passes entry k and never writes a byte of entry k: its    *)
(* central-directory record, its central-directory extra field, its local  *)
(* header, its local extra field.                                          *)
C5_Original ==
  \A k \in 1..NumEntries :
    (WellFormedTrailer
     /\ (FlagsToReject(Entries[k].cdGp) \/ FlagsToReject(Entries[k].lfGp))) =>
      /\ dir_entry < k
      /\ ~Succeeded
      /\ written \cap EntryArea(k) = {}

(* C5  as amended: a record is rejected before any byte of it or of its    *)
(* extra field is written.  Flags to reject in the central-directory entry *)
(* of entry k: no byte of entry k is written.  Flags to reject in its      *)
(* local header: no byte of the local header or of the local extra field   *)
(* is written (the central-directory record and extra field of entry k     *)
(* have been rewritten by then).  In both cases the run never passes       *)
(* entry k and does not end with status 0.                                 *)
C5_FlagsRejectedBeforeWrite ==
  \A k \in 1..NumEntries :
    /\ (WellFormedTrailer /\ FlagsToReject(Entries[k].cdGp)) =>
         /\ dir_entry < k
         /\ ~Succeeded
         /\ written \cap EntryArea(k) = {}
    /\ (WellFormedTrailer /\ FlagsToReject(Entries[k].lfGp)) =>
         /\ dir_entry < k
         /\ ~Succeeded
         /\ written \cap (LfRecArea(k) \cup LfExtraArea(k)) = {}

\* the run was rejected at the local header of the second entry, after the
\* first entry and the central-directory record of the second were rewritten
C5_Witness ==
  /\ Done
  /\ status = ExitFail
  /\ NumEntries = 2
  /\ FlagsToReject(Entries[2].lfGp)
  /\ dir_entry = 1
  /\ diag[1] \in {"Entry encrypted", "Entry has strange general purpose bits"}
  /\ CdRecArea(2) \subseteq written

(* C6  Fail-closed on unknown extra ids: when the extra field of the       *)
(* central-directory entry or of the local header of entry k holds a       *)
(* sub-record whose id is none of 0x5455, 0x7875, 0xFFFF, the run aborts   *)
(* with a non-zero status while at entry k, and no byte of a later entry   *)
(* is modified.                                                            *)
C6_UnknownIdAborts ==
  \A k \in 1..NumEntries :
    (WellFormedTrailer
     /\ (HasUnknownId(Entries[k].cdExtra) \/ HasUnknownId(Entries[k].lfExtra))) =>
      /\ dir_entry < k
      /\ ~Succeeded
      /\ \A j \in (k + 1)..NumEntries : written \cap EntryArea(j) = {}

(* C7  Trailer rejection: when the file is shorter than 22 bytes, or its   *)
(* last 22 bytes do not start with 0x06054b50, or disk_number is not 0, or *)
(* size_of_cd is 0xFFFFFFFF, the run never enters the central-directory    *)
(* loop, ends with a non-zero status and leaves the archive byte-identical.*)
TrailerToReject ==
  \/ arch.trailer = "tiny"
  \/ LET h == EocdBytes(Entries, arch.trailer)
     IN \/ eocd_signature(h) # EO_CENDIR_HEADER_SIGNATURE
        \/ eocd_disk_number(h) # 0
        \/ eocd_size_of_cd(h) = ZIP64_SIZE_OF_CD

C7_TrailerRejection ==
  TrailerToReject =>
    /\ pc \in {"start", "trailer", "done"}
    /\ file = InputFile
    /\ written = {}
    /\ Done => status = ExitFail

\* a split archive with two entries was rejected
C7_Witness ==
  /\ Done
  /\ TrailerToReject
  /\ eocd_header # << >>
  /\ eocd_disk_number(eocd_header) # 0
  /\ NumEntries = 2

(* C8  I/O errors are fatal: once a write of the in-place writer has not   *)
(* transferred its bytes, or its seek has failed, the run is over, with a  *)
(* non-zero status: nothing is read or rewritten after it.                 *)
C8_IoErrorsFatal ==
  ioFailed => (Done /\ status # ExitOK)

(* C9  Handle release: when a run that opened the archive has returned,    *)
(* the handle has been closed, exactly once.                               *)
C9_HandleReleased ==
  (Done /\ zf # "null") => (zf = "closed" /\ closes = 1)

(* C10  Acceptance of valid archives: an archive that breaks none of the   *)
(* validation rules is processed to its last entry and the run ends with   *)
(* status 0, whatever the lengths of name, comment and extra field, 0      *)
(* included.                                                               *)
ValidExtra(x) == Tiles(x, 0) /\ ~HasUnknownId(x)
ValidEntry(e) ==
  /\ e.cdSig = CENDIR_HEADER_SIGNATURE
  /\ e.lfSig = FILE_HEADER_SIGNATURE
  /\ ~e.lfOffBad
  /\ ~FlagsToReject(e.cdGp)
  /\ ~FlagsToReject(e.lfGp)
  /\ ValidExtra(e.cdExtra)
  /\ ValidExtra(e.lfExtra)
ValidArchive == arch.trailer = "ok" /\ \A k \in 1..NumEntries : ValidEntry(Entries[k])

C10_ValidAccepted ==
  (ValidArchive /\ Done) => (status = ExitOK /\ dir_entry = NumEntries)

-----------------------------------------------------------------------------
\* the bytes a run may change: last_mod_time and last_mod_date of the central-
\* directory record and of the local header of each entry, and the bytes of
\* their extra fields (the entry laid out as name, extra field, comment)
CdTimeArea(k) == Range(CdStart(Entries, k) + 12, 4)
LfTimeArea(k) == Range(LocalStart(Entries, k) + 10, 4)
VolatileArea ==
  UNION {CdTimeArea(k) \cup CdExtraArea(k) \cup LfTimeArea(k) \cup LfExtraArea(k) :
           k \in 1..NumEntries}

\* the offsets at which the file differs from the archive as it was given
Changed ==
  LET input == InputFile
  IN {i \in 0..(Len(file) - 1) : i >= Len(input) \/ file[i + 1] # input[i + 1]}

\* the n bytes at offset lo are those of the input, and none was written
Untouched(lo, n) ==
  /\ SubSeq(file, lo + 1, lo + n) = SubSeq(InputFile, lo + 1, lo + n)
  /\ Range(lo, n) \cap written = {}

(* C11  Frame of a run: the only bytes of the archive a run changes are    *)
(* the time and date bytes and the extra-field bytes of central-directory  *)
(* entries and local headers; file names, file comments, payloads and all  *)
(* other header fields keep the bytes they had.                            *)
C11_Frame ==
  WellFormedTrailer => Changed \subseteq VolatileArea

-----------------------------------------------------------------------------
\* the calls of overwrite_field(data, len, zf) the program makes from the
\* state it is in, each with the position p of the stream at the call
WriterCalls ==
  IF pc = "loop" /\ dir_entry < eocd_total_num_entries_cd(eocd_header)
                /\ CdHeaderResult("ok").pc = "names"
    THEN {[data |-> CdHeaderResult("ok").hdr, p |-> pos + SizeofCentralDirectoryHeader]}
  ELSE IF pc = "local" /\ LocalHeaderResult("ok").pc = "lfextra"
    THEN {[data |-> LocalHeaderResult("ok").hdr,
           p |-> U32Offset(cd_rel_offset_local_header(cd_header)) + SizeofLocalFileHeader]}
  ELSE IF pc \in {"cdextra", "lfextra"}
    THEN LET q == IF pc = "cdextra" THEN pos ELSE pos + lf_name_length(lf_header)
             len == IF pc = "cdextra" THEN cd_extra_field_length(cd_header)
                    ELSE lf_extra_field_length(lf_header)
         IN IF len > 0 /\ FreadOk(file, q, len)
              THEN {[data |-> SubSeq(PurifyExtraData(len, FreadInto(local_extra,
                                       FreadData(file, q, len)), g).buf.pre, 1, len),
                     p |-> q + len] : g \in ExtraStale(q, len)}
              ELSE {}
  ELSE {}

\* what overwrite_field promises for data written with the stream at p in f
WriterFrame(data, f, p) ==
  LET len == Len(data)
      w == OverwriteField(data, f, p, "ok")
  IN (p >= len /\ p <= Len(f)) =>
       /\ w.pos = p
       /\ Len(w.file) = Len(f)
       /\ SubSeq(w.file, p - len + 1, p) = data
       /\ SubSeq(w.file, 1, p - len) = SubSeq(f, 1, p - len)
       /\ SubSeq(w.file, p + 1, Len(f)) = SubSeq(f, p + 1, Len(f))

(* C12  In-place writer frame: overwrite_field called with len bytes of    *)
(* data and the stream at p >= len, the write succeeding, leaves the       *)
(* stream at p, bytes [p-len, p) of the file equal to data and every other *)
(* byte of the file as it was.                                             *)
C12_WriterFrame ==
  \A c \in WriterCalls : WriterFrame(c.data, file, c.p)

\* the extra field of the first central-directory entry has been written
\* back with other bytes, and the stream stands at its end
C12_Witness ==
  /\ pc = "local"
  /\ dir_entry = 0
  /\ NumEntries >= 1
  /\ Entries[1].comment = << >>
  /\ Entries[1].cdExtra # << >>
  /\ CdExtraArea(1) \subseteq written
  /\ pos = CdExtraStart(1) + Len(Entries[1].cdExtra)
  /\ file # InputFile

-----------------------------------------------------------------------------
(* C13  Central-directory cursor: at the start of every loop iteration the *)
(* stream stands at the end of the central-directory entries processed so  *)
(* far: the start of the previous entry plus 46 plus its file name, extra  *)
(* field and comment lengths, whatever was read and rewritten at its local *)
(* header.                                                                 *)
C13_CdCursor ==
  pc = "loop" => pos = CdOffset(Entries) + SumCd(Entries, dir_entry)

\* the second iteration is about to start, after the local header and the
\* local extra field of the first entry were rewritten
C13_Witness ==
  /\ pc = "loop"
  /\ dir_entry = 1
  /\ NumEntries = 2
  /\ Entries[1].lfExtra # << >>
  /\ LfExtraArea(1) \subseteq written
  /\ pos = CdStart(Entries, 1) + SizeofCentralDirectoryHeader + Len(Entries[1].name)
           + Len(Entries[1].cdExtra) + Len(Entries[1].comment)

-----------------------------------------------------------------------------
\* the calls of purify_extra_data(len, local_extra) the program makes from
\* the state it is in: d the len bytes just read from the file into the
\* buffer, buf the buffer at the call
PurifyCalls ==
  IF pc \in {"cdextra", "lfextra"}
    THEN LET q == IF pc = "cdextra" THEN pos ELSE pos + lf_name_length(lf_header)
             len == IF pc = "cdextra" THEN cd_extra_field_length(cd_header)
                    ELSE lf_extra_field_length(lf_header)
         IN IF len > 0 /\ FreadOk(file, q, len)
              THEN {[len |-> len, d |-> FreadData(file, q, len),
                     buf |-> FreadInto(local_extra, FreadData(file, q, len))]}
              ELSE {}
  ELSE {}

(* C14  Exact fill: purify_extra_data(len, buf) returns success only if    *)
(* the sub-records of buf tile [0, len) exactly: every 4-byte header and    *)
(* the payload it declares lie inside [0, len) and the last sub-record     *)
(* ends at len.                                                            *)
C14_ExactFill ==
  \A c \in PurifyCalls :
    \A g \in StaleChoices(c.len, c.buf) :
      PurifyExtraData(c.len, c.buf, g).ok => Tiles(c.d, 0)

(* C15  Buffer bounds: purify_extra_data(len, buf) reads sub-record        *)
(* headers and writes 0xFF only at indices below len, hence inside the     *)
(* 65535 cells of local_extra, and its outcome depends only on the len     *)
(* bytes just read: not on what the cells past them hold, be it what an    *)
(* earlier entry left there or nothing defined.                            *)
C15_BufferBounds ==
  \A c \in PurifyCalls :
    \A g \in StaleBytes :
      LET r == PurifyExtraData(c.len, c.buf, g)
      IN /\ r.hi <= c.len
         /\ ~r.oob
         /\ r.ok = PurifyExtraData(c.len, FreadInto(EmptyBuffer, c.d), 0).ok

-----------------------------------------------------------------------------
\* the run ended on "Unknown extra header": purify_extra_data returned false
\* for an extra field of entry dir_entry + 1, the local one when the local
\* header of that entry has been written back, else the central-directory one
PurifyFailed == Done /\ diag[1] = "Unknown extra header"
FailedInLocal == LfRecArea(dir_entry + 1) \subseteq written

(* C16  No partial write-back of an extra field: when purify_extra_data    *)
(* reports failure for an extra field, central-directory or local, the     *)
(* bytes of that field in the file are those of the input, even if earlier *)
(* sub-records of it were neutralised in the buffer; nothing is written    *)
(* back for it.                                                            *)
C16_NoPartialWriteBack ==
  PurifyFailed =>
    LET e == Entries[dir_entry + 1]
    IN IF FailedInLocal
         THEN Untouched(LfExtraStart(dir_entry + 1), Len(e.lfExtra))
         ELSE /\ Untouched(CdExtraStart(dir_entry + 1), Len(e.cdExtra) + Len(e.comment))
              /\ Untouched(LfExtraStart(dir_entry + 1), Len(e.lfExtra))

\* the run failed on the second sub-record of a central-directory extra field
\* after the first was neutralised in the buffer
C16_Witness ==
  /\ PurifyFailed
  /\ ~FailedInLocal
  /\ Entries[dir_entry + 1].cdExtra = X_ts_unk
  /\ SubSeq(local_extra.pre, 1, 2) = LE16Bytes(STRIPZIP_OPTION_HEADER)
  /\ SubSeq(file, CdExtraStart(dir_entry + 1) + 1, CdExtraStart(dir_entry + 1) + 8)
       = X_ts_unk

-----------------------------------------------------------------------------
\* no more iterations than the trailer declares, and no byte written twice:
\* what the program is about to write back has not been written in this run
SinglePass ==
  /\ (pc \notin {"start", "trailer"} /\ eocd_header # << >>) =>
       dir_entry <= eocd_total_num_entries_cd(eocd_header)
  /\ \A c \in WriterCalls : Range(c.p - Len(c.data), Len(c.data)) \cap written = {}

(* C17  Termination and single pass: every run ends, in success or in      *)
(* abort; the central-directory loop runs at most total_num_entries_cd     *)
(* iterations; each central-directory entry and each local header is       *)
(* decoded and rewritten at most once in a run.  (The loop of the purifier *)
(* ends for every len and buffer: its offset grows by at least 4 at every  *)
(* sub-record.)                                                            *)
C17_Termination ==
  /\ <>Done
  /\ []SinglePass

\* a run over two entries has ended in success, after a purifier call that
\* walked two sub-records
C17_Witness ==
  /\ Succeeded
  /\ NumEntries = 2
  /\ dir_entry = 2
  /\ Entries[2].cdExtra = X_ux_sent
  /\ Entries[1].lfExtra = X_ts
  /\ (CdRecArea(1) \cup CdRecArea(2) \cup LfRecArea(1) \cup LfRecArea(2)) \subseteq written

-----------------------------------------------------------------------------
\* the record of the first entry was accepted: it has been written back
CdAccepted == CdRecArea(1) \subseteq written
LfAccepted == LfRecArea(1) \subseteq written

\* the 16-bit values that agree with g on bits 0..11
SameLowBits(g) == {(g % 2^12) + 2^12 * hi : hi \in 0 .. 15}

\* the two tests of main accept gp
FlagTestsAccept(gp) == ~HasEncMarkers(gp) /\ ~HasUnknownFlags(gp)

(* C18  Flag validation mask: a gp_bits value is accepted if and only if   *)
(* its set bits are among {1, 2, 3, 4, 5, 11}: none of the encryption bits  *)
(* 0, 6, 13 and no bit outside {0,1,2,3,4,5,6,11,13}; for the central-      *)
(* directory record and for the local header alike.  Stated of the run,    *)
(* for the flags of the archive, and of the two tests of main, for every   *)
(* 16-bit value (the values of bits 0..11 among the archives of SpecFlags  *)
(* are all of them).                                                       *)
C18_FlagMask ==
  NumEntries = 1 =>
    /\ pc \notin {"start", "trailer", "loop"} =>
         (CdAccepted <=> ~FlagsToReject(Entries[1].cdGp))
    /\ (pc = "lfextra" \/ (Done /\ CdAccepted)) =>
         (LfAccepted <=> ~FlagsToReject(Entries[1].lfGp))
    /\ pc = "start" =>
         \A v \in SameLowBits(Entries[1].cdGp) \cup SameLowBits(Entries[1].lfGp) :
           FlagTestsAccept(v) <=> ~FlagsToReject(v)

\* a local header with bit 12 set was rejected after the central-directory
\* record of the same entry, whose flags are 0, was accepted
C18_Witness ==
  /\ Done
  /\ status = ExitFail
  /\ NumEntries = 1
  /\ Entries[1].lfGp = 2^12
  /\ CdAccepted
  /\ ~LfAccepted

-----------------------------------------------------------------------------
(* C19  Diagnostic names the offending field: when a local file header is  *)
(* rejected for unrecognised general-purpose bits, the value reported is   *)
(* the gp_bits of that local header.  (The local header is the one         *)
(* rejected when the central-directory record of the entry has been        *)
(* written back.)                                                          *)
C19_DiagnosticNamesField ==
  (/\ Done
   /\ diag[1] = "Entry has strange general purpose bits"
   /\ CdRecArea(dir_entry + 1) \subseteq written) =>
    diag[2] = Entries[dir_entry + 1].lfGp

====
